---------------------------- MODULE Spec2Model ----------------------------
(***************************************************************************)
(* Model of the GCIDE-to-Kindle dictionary pipeline:                       *)
(*   gcide2tab.py                   the markup extractor                   *)
(*   merge_gcide_with_characters.py the lexicon merger                     *)
(*                                                                         *)
(* A Python str is a sequence of one-character strings.  Positions are     *)
(* 1-based here (Python's position p is p + 1 here) and a half-open Python *)
(* slice s[a:b] is SubSeq(s, a + 1, b).  "Not found" / None is 0 or a      *)
(* record with found = FALSE.                                              *)
(***************************************************************************)
EXTENDS Integers, Sequences, FiniteSets

(***************************************************************************)
(* Bounds of the model.                                                    *)
(***************************************************************************)
\* blocks in the whole input directory
MaxBlocks == 2
\* letter files considered (the code considers 26)
NumLetters == 2
\* lines of the base lexicon / of the supplementary list
MaxBaseLines == 2
MaxCharLines == 2

Min(a, b) == IF a < b THEN a ELSE b

\* the least element of a non-empty set of integers
Least(S) == CHOOSE x \in S : \A y \in S : x <= y

(***************************************************************************)
(* Characters.                                                             *)
(***************************************************************************)
Lower ==
    <<"a", "b", "c", "d", "e", "f", "g", "h", "i", "j", "k", "l", "m",
      "n", "o", "p", "q", "r", "s", "t", "u", "v", "w", "x", "y", "z">>

Digits == <<"0", "1", "2", "3", "4", "5", "6", "7", "8", "9">>

Punct == <<"\t", "\n", "\f", "\r", " ", "#", "&", "/", ";", "<", ">", "C", "[", "]">>

PunctCode == <<9, 10, 12, 13, 32, 35, 38, 47, 59, 60, 62, 67, 91, 93>>

\* ord(c) for the characters of the model
CodePoint(c) ==
    IF \E i \in 1..26 : Lower[i] = c
      THEN 96 + (CHOOSE i \in 1..26 : Lower[i] = c)
    ELSE IF \E i \in 1..10 : Digits[i] = c
      THEN 47 + (CHOOSE i \in 1..10 : Digits[i] = c)
    ELSE IF \E i \in 1..Len(Punct) : Punct[i] = c
      THEN PunctCode[CHOOSE i \in 1..Len(Punct) : Punct[i] = c]
    ELSE 65533

Chars == {Lower[i] : i \in 1..26} \cup {Digits[i] : i \in 1..10}
           \cup {Punct[i] : i \in 1..Len(Punct)}

\* str.isspace(), which is also the regex class \s, on the model's characters
Whitespace == {" ", "\t", "\n", "\r", "\f"}

(***************************************************************************)
(* str primitives.                                                         *)
(***************************************************************************)
\* s[i-1 : i-1+n]
Slice(s, i, n) == SubSeq(s, i, Min(i + n - 1, Len(s)))

\* s.find(sub, pos-1) + 1: least position >= pos where sub occurs, 0 if none
Find(s, sub, pos) ==
    LET hits == {i \in pos..Len(s) : Slice(s, i, Len(sub)) = sub}
    IN  IF hits = {} THEN 0 ELSE Least(hits)

\* sub in s
Contains(s, sub) == Find(s, sub, 1) # 0

\* s.strip()
Strip(s) ==
    IF \A i \in 1..Len(s) : s[i] \in Whitespace THEN <<>>
    ELSE SubSeq(s,
                CHOOSE i \in 1..Len(s) :
                    s[i] \notin Whitespace /\ \A j \in 1..(i - 1) : s[j] \in Whitespace,
                CHOOSE i \in 1..Len(s) :
                    s[i] \notin Whitespace /\ \A j \in (i + 1)..Len(s) : s[j] \in Whitespace)

\* s.replace(old, new) for a single character old
ReplaceChar(s, old, new) == [i \in 1..Len(s) |-> IF s[i] = old THEN new ELSE s[i]]

RECURSIVE ReplaceFrom(_, _, _, _)
\* from position i on: copy up to the next occurrence of ent, replace it, go on after it
ReplaceFrom(s, ent, new, i) ==
    LET j == Find(s, ent, i)
    IN  IF j = 0 THEN SubSeq(s, i, Len(s))
        ELSE SubSeq(s, i, j - 1) \o <<new>> \o ReplaceFrom(s, ent, new, j + Len(ent))

\* s.replace(ent, new) for a non-empty string ent
ReplaceAll(s, ent, new) == ReplaceFrom(s, ent, new, 1)

RECURSIVE JoinFrom(_, _, _)
JoinFrom(sep, parts, i) ==
    IF i > Len(parts) THEN <<>>
    ELSE IF i = Len(parts) THEN parts[i]
    ELSE parts[i] \o sep \o JoinFrom(sep, parts, i + 1)

\* sep.join(parts)
Join(sep, parts) == JoinFrom(sep, parts, 1)

IsKept(c) == c # "dropped"

\* re.sub(r'\s+', ' ', s): the first character of a whitespace run becomes a space,
\* the others are dropped
CollapseWs(s) ==
    SelectSeq([i \in 1..Len(s) |->
                  IF s[i] \notin Whitespace THEN s[i]
                  ELSE IF i > 1 /\ s[i - 1] \in Whitespace THEN "dropped"
                  ELSE " "],
              IsKept)

\* a < b for str: lexicographic by code point
LexLess(a, b) ==
    \E i \in 1..(Len(b)) :
        /\ i <= Len(a) + 1
        /\ SubSeq(a, 1, i - 1) = SubSeq(b, 1, i - 1)
        /\ \/ i = Len(a) + 1
           \/ i <= Len(a) /\ CodePoint(a[i]) < CodePoint(b[i])

LexLeq(a, b) == a = b \/ LexLess(a, b)

RECURSIVE SortedSeq(_)
\* sorted(S) for a set of str
SortedSeq(S) ==
    IF S = {} THEN <<>>
    ELSE LET m == CHOOSE x \in S : \A y \in S : LexLeq(x, y)
         IN  <<m>> \o SortedSeq(S \ {m})

(***************************************************************************)
(* gcide2tab.py: markers and pure functions.                               *)
(***************************************************************************)
DefOpen == <<"<", "d", "e", "f", ">">>
DefClose == <<"<", "/", "d", "e", "f", ">">>
HwOpen == <<"<", "h", "w", ">">>
HwClose == <<"<", "/", "h", "w", ">">>
POpen == <<"<", "p", ">">>
EntOpen == <<"<", "e", "n", "t", ">">>
Sep == <<";", " ">>

\* position of the '>' ending a match of <[^>]+> that starts at i, 0 if none
TagEnd(s, i) ==
    IF s[i] = "<" /\ Find(s, <<">">>, i + 1) > i + 1 THEN Find(s, <<">">>, i + 1) ELSE 0

\* the next position >= i where a tag starts, 0 if none
NextTag(s, i) ==
    LET starts == {k \in i..Len(s) : TagEnd(s, k) # 0}
    IN  IF starts = {} THEN 0 ELSE Least(starts)

RECURSIVE StripTagsFrom(_, _)
\* from position i on: copy up to the next tag, drop it, go on after it
StripTagsFrom(s, i) ==
    LET Rest(k) == IF k = 0 THEN SubSeq(s, i, Len(s))
                   ELSE SubSeq(s, i, k - 1) \o StripTagsFrom(s, TagEnd(s, k) + 1)
    \* NextTag is evaluated once and Rest applied to its value
    IN  CHOOSE r \in {Rest(k) : k \in {NextTag(s, i)}} : TRUE

\* strip_tags: re.sub(r'<[^>]+>', '', text)
strip_tags(text) == StripTagsFrom(text, 1)

IsDigit(c) == \E i \in 1..10 : Digits[i] = c

DigitVal(c) == (CHOOSE i \in 1..10 : Digits[i] = c) - 1

\* first position >= i that holds no digit
DigitsEnd(s, i) ==
    CHOOSE j \in i..(Len(s) + 1) :
        /\ \A k \in i..(j - 1) : IsDigit(s[k])
        /\ j > Len(s) \/ ~IsDigit(s[j])

RECURSIVE DecVal(_, _, _, _)
DecVal(s, i, j, acc) ==
    IF i > j THEN acc ELSE DecVal(s, i + 1, j, Min(acc * 10 + DigitVal(s[i]), 1114112))

\* html._replace_charref for a decimal reference: the character of a code point
CharRef(num) ==
    IF num = 0 \/ num > 1114111 THEN <<"U+FFFD">>
    ELSE IF num \in (1..8) \cup {11} \cup (14..31) \cup (127..159) THEN <<>>
    ELSE IF \E c \in Chars : CodePoint(c) = num
      THEN <<CHOOSE c \in Chars : CodePoint(c) = num>>
    ELSE <<"U+OTHER">>

\* a decimal character reference starts at i: &# and a digit
IsRefStart(s, i) ==
    s[i] = "&" /\ i + 2 <= Len(s) /\ s[i + 1] = "#" /\ IsDigit(s[i + 2])

RECURSIVE UnescapeFrom(_, _)
\* from position i on: copy up to the next reference, decode it, go on after it
UnescapeFrom(s, i) ==
    LET starts == {k \in i..Len(s) : IsRefStart(s, k)}
    IN  IF starts = {} THEN SubSeq(s, i, Len(s))
        ELSE LET r == Least(starts)
                 j == DigitsEnd(s, r + 2)
                 k == IF j <= Len(s) /\ s[j] = ";" THEN j + 1 ELSE j
             IN  SubSeq(s, i, r - 1) \o CharRef(DecVal(s, r + 2, j - 1, 0))
                   \o UnescapeFrom(s, k)

\* html.unescape, on decimal character references (&#N; and &#N): the model's
\* texts hold no named or hexadecimal reference
unescape(text) == UnescapeFrom(text, 1)

\* the replacements table of decode_entities
replacements ==
    << <<<<"&", "e", "b", "r", "e", "v", "e", "_", ";">>, "U+0115">>,
       <<<<"&", "e", "m", "a", "c", "r", ";">>, "U+0113">>,
       <<<<"&", "o", "c", "i", "r", "c", ";">>, "U+00F4">>,
       <<<<"&", "e", "i", "t", "a", "l", "i", "c", "_", ";">>, "U+00E9">>,
       <<<<"&", "o", "m", "a", "c", "r", ";">>, "U+014D">>,
       <<<<"&", "u", "b", "r", "e", "v", "e", "_", ";">>, "U+016D">>,
       <<<<"&", "i", "b", "r", "e", "v", "e", "_", ";">>, "U+012D">>,
       <<<<"&", "a", "b", "r", "e", "v", "e", "_", ";">>, "U+0103">> >>

RECURSIVE ApplyReplacements(_, _)
ApplyReplacements(text, n) ==
    IF n > Len(replacements) THEN text
    ELSE ApplyReplacements(ReplaceAll(text, replacements[n][1], replacements[n][2]), n + 1)

decode_entities(text) == ApplyReplacements(unescape(text), 1)

NoDef == [found |-> FALSE, text |-> <<>>, end |-> 0]

\* the next position >= i holding an open or a close marker (the loop's i += 1
\* steps lead there), 0 if none
NextMarker(s, i) ==
    LET at == {k \in i..Len(s) : Slice(s, k, 5) = DefOpen \/ Slice(s, k, 6) = DefClose}
    IN  IF at = {} THEN 0 ELSE Least(at)

RECURSIVE ExtractDefLoop(_, _, _, _, _)
\* lines 52-66, from position i with the given depth and begin
ExtractDefLoop(entry_text, start, i, depth, begin) ==
    LET At(k) ==
          IF k = 0 THEN [found |-> FALSE, text |-> <<>>, end |-> start]
          ELSE IF Slice(entry_text, k, 5) = DefOpen
            THEN ExtractDefLoop(entry_text, start, k + 5, depth + 1,
                                IF depth = 0 THEN k + 5 ELSE begin)
          ELSE IF depth - 1 = 0
            THEN [found |-> TRUE, text |-> SubSeq(entry_text, begin, k - 1), end |-> k + 6]
          ELSE ExtractDefLoop(entry_text, start, k + 6, depth - 1, begin)
    \* NextMarker is evaluated once and At applied to its value
    IN  CHOOSE r \in {At(k) : k \in {NextMarker(entry_text, i)}} : TRUE

\* extract_def_content without the depth counter: the first close marker ends the span
extract_def_content_first_close(entry_text, start) ==
    LET k == Find(entry_text, DefClose, start)
    IN  IF k = 0 THEN [found |-> FALSE, text |-> <<>>, end |-> start]
        ELSE [found |-> TRUE, text |-> SubSeq(entry_text, start + 5, k - 1), end |-> k + 6]

\* extract_def_content: (definition_text, end_position), (None, start) if unmatched
extract_def_content(entry_text, start) == ExtractDefLoop(entry_text, start, start, 0, 0)

\* re.search(r'<hw>([^<]*)</hw>', entry_text): the leftmost match
hw_match(entry_text) ==
    LET ok(i) == /\ Slice(entry_text, i, 4) = HwOpen
                 /\ LET j == Find(entry_text, <<"<">>, i + 4)
                    IN  j # 0 /\ Slice(entry_text, j, 5) = HwClose
        hits == {i \in 1..Len(entry_text) : ok(i)}
    IN  IF hits = {} THEN [found |-> FALSE, text |-> <<>>]
        ELSE LET i == Least(hits)
             IN  [found |-> TRUE,
                  text |-> SubSeq(entry_text, i + 4, Find(entry_text, <<"<">>, i + 4) - 1)]

\* lines 86-87: the plain text of one definition span
plain_of(def_content) ==
    CHOOSE r \in {Strip(c) : c \in {CollapseWs(t) : t \in {strip_tags(def_content)}}} : TRUE

\* lines 98-99 without the replace/collapse: the decoded text is kept as it is
single_line_unnormalised(definition) == definition

\* lines 98-99: replace tab, newline, carriage return; collapse; strip
single_line(definition) ==
    Strip(CollapseWs(ReplaceChar(ReplaceChar(ReplaceChar(definition, "\t", " "), "\n", " "), "\r", " ")))

\* lines 94-100: the (headword, definition) extract_entry returns
entry_result(headword, defs) ==
    [headword |-> decode_entities(headword),
     definition |-> single_line(decode_entities(Join(Sep, defs)))]

\* first position >= i that holds no whitespace
WsEnd(s, i) ==
    CHOOSE j \in i..(Len(s) + 1) :
        /\ \A k \in i..(j - 1) : s[k] \in Whitespace
        /\ j > Len(s) \/ s[j] \notin Whitespace

\* length of the match of r'<p>\s*<ent>' at position i, 0 if none
DelimLen(s, i) ==
    IF Slice(s, i, 3) = POpen /\ Slice(s, WsEnd(s, i + 3), 5) = EntOpen
      THEN WsEnd(s, i + 3) + 5 - i
      ELSE 0

RECURSIVE SplitFrom(_, _)
\* the pieces of s from position i on: up to the next delimiter, then the rest
SplitFrom(s, i) ==
    LET at == {k \in i..Len(s) : DelimLen(s, k) > 0}
    IN  IF at = {} THEN <<SubSeq(s, i, Len(s))>>
        ELSE <<SubSeq(s, i, Least(at) - 1)>> \o SplitFrom(s, Least(at) + DelimLen(s, Least(at)))

\* re.split(r'<p>\s*<ent>', text)
split_blocks(text) == SplitFrom(text, 1)

\* lines 117-120 with the branches swapped in effect: a repeated headword overwrites
merge_entry_overwrite(out_entries, headword, definition) ==
    [k \in DOMAIN out_entries \cup {headword} |->
        IF k = headword THEN definition ELSE out_entries[k]]

\* lines 117-120: insert, or append "; " + definition
merge_entry(out_entries, headword, definition) ==
    [k \in DOMAIN out_entries \cup {headword} |->
        IF k # headword THEN out_entries[k]
        ELSE IF headword \notin DOMAIN out_entries THEN definition
        ELSE out_entries[headword] \o Sep \o definition]

\* line 162: the headword as written
written_headword(headword) == Strip(ReplaceChar(ReplaceChar(headword, "\t", " "), "\n", " "))

RECURSIVE WriteLines(_, _, _)
WriteLines(keys, entries_, i) ==
    IF i > Len(keys) THEN <<>>
    ELSE written_headword(keys[i]) \o <<"\t">> \o entries_[keys[i]] \o <<"\n">>
           \o WriteLines(keys, entries_, i + 1)

\* lines 158-166: the text written to output_path
serialize(entries_) == WriteLines(SortedSeq(DOMAIN entries_), entries_, 1)

(***************************************************************************)
(* Inputs of the extractor: letter files built from a catalogue of blocks. *)
(***************************************************************************)
HwApple == <<"a", "p", "p", "l", "e">>
TabRef == <<"&", "#", "9", ";">>
DFruit == <<"a", " ", "f", "r", "u", "i", "t">>
DPolish == <<"t", "o", " ", "p", "o", "l", "i", "s", "h">>
NestedDef ==
    <<"<", "d", "e", "f", ">", "o", "u", "t", "e", "r", " ", "<", "d", "e", "f", ">",
      "i", "n", "n", "e", "r", "<", "/", "d", "e", "f", ">", " ", "t", "e", "x", "t",
      "<", "/", "d", "e", "f", ">">>
NestedPlain ==
    <<"o", "u", "t", "e", "r", " ", "i", "n", "n", "e", "r", " ", "t", "e", "x", "t">>
UnbalancedDef ==
    <<"<", "d", "e", "f", ">", "x", "<", "d", "e", "f", ">", "y", "<", "/", "d", "e", "f", ">">>
MultiDef ==
    <<"<", "d", "e", "f", ">", "x", "\t", "<", "i", ">", "y", "<", "/", "i", ">",
      "&", "#", "9", ";", "z", "<", "/", "d", "e", "f", ">",
      "<", "d", "e", "f", ">", " ", "<", "/", "d", "e", "f", ">",
      "<", "d", "e", "f", ">", "w", "<", "/", "d", "e", "f", ">">>
MultiPlain == <<"x", " ", "y", " ", "z", ";", " ", "w">>

Block(hw, markup) == HwOpen \o hw \o HwClose \o markup

BFruit == Block(HwApple, DefOpen \o DFruit \o DefClose)
BPolish == Block(HwApple, DefOpen \o DPolish \o DefClose)
\* a headword that decodes to a leading tab
BTabHw == Block(TabRef \o HwApple, DefOpen \o <<"x">> \o DefClose)
BNested == Block(<<"a">>, NestedDef)
BUnbalanced == Block(<<"u">>, UnbalancedDef)
\* a definition that is empty only after entity decoding
BTabDef == Block(<<"e">>, DefOpen \o TabRef \o DefClose)
BMulti == Block(<<"t">>, MultiDef)

Catalogue == {BFruit, BPolish, BTabHw, BNested, BUnbalanced, BTabDef, BMulti}

Letters == 1..NumLetters

RECURSIVE FileTextFrom(_, _, _, _)
FileTextFrom(bs, at, l, i) ==
    IF i > Len(bs) THEN <<>>
    ELSE (IF at[i] # l THEN <<>>
          ELSE IF i % 2 = 0 THEN POpen \o <<"\n">> \o EntOpen \o bs[i]
          ELSE POpen \o EntOpen \o bs[i])
         \o FileTextFrom(bs, at, l, i + 1)

\* the text of letter file l: the blocks placed in it, each after an entry delimiter
FileText(bs, at, l) == FileTextFrom(bs, at, l, 1)

NoDir == [exists |-> FALSE, files |-> <<>>]

\* no directory; a directory of empty letter files (none, some, all); or a directory
\* whose blocks lie in some letter files, in order
InputDirs ==
    {NoDir} \cup
    UNION {
      {[exists |-> TRUE, files |-> [l \in present |-> FileText(bs, at, l)]] :
          present \in IF bs = <<>> THEN SUBSET Letters
                      ELSE {{at[i] : i \in 1..Len(bs)}}} :
      <<bs, at>> \in UNION {
          {<<b, a>> : b \in [1..n -> Catalogue],
                      a \in {f \in [1..n -> Letters] :
                               \A i \in 1..n, j \in 1..n : i <= j => f[i] <= f[j]}} :
          n \in 0..MaxBlocks}}

OldText == <<"o", "l", "d", "\t", "x", "\n">>
NoFile == [exists |-> FALSE, text |-> <<>>]

(***************************************************************************)
(* State.                                                                  *)
(***************************************************************************)
VARIABLES
    \* gcide2tab.py
    xml_dir,        \* the input directory: exists, files (letter -> text)
    out_dir,        \* output_path.parent exists
    out_file,       \* output_path: exists, text
    pc,             \* position in main / process_file / extract_entry
    status,         \* exit status, -1 while running
    letter_files,   \* main: letter_files
    fi,             \* main: index of the file being processed
    blocks,         \* process_file: blocks
    bi,             \* process_file: index of the block being processed
    entry_text,     \* extract_entry: entry_text
    headword,       \* extract_entry: headword
    defs,           \* extract_entry: defs
    pos,            \* extract_entry: pos
    idx,            \* extract_entry: idx
    def_content,    \* extract_entry: (def_content, end_pos)
    entries,        \* main: entries
    log,            \* the results extract_entry returned, in order
    \* merge_gcide_with_characters.py
    book_folder,    \* sys.argv[1]: "known", "unknown" or "none"
    gcide_file,     \* the base lexicon: exists, text
    char_file,      \* the supplementary list: exists, text
    book_dir,       \* book_dir exists
    union_file,     \* output_path: exists, text
    mpc,            \* position in main
    mstatus         \* exit status, -1 while running

evars == <<xml_dir, out_dir, out_file, pc, status, letter_files, fi, blocks, bi,
           entry_text, headword, defs, pos, idx, def_content, entries, log>>
mvars == <<book_folder, gcide_file, char_file, book_dir, union_file, mpc, mstatus>>
vars == <<evars, mvars>>

EmptyEntries == [k \in {} |-> <<>>]

MergerIdle ==
    /\ book_folder = "none"
    /\ gcide_file = NoFile
    /\ char_file = NoFile
    /\ book_dir = FALSE
    /\ union_file = NoFile
    /\ mpc = "idle"
    /\ mstatus = -1

Init ==
    /\ xml_dir \in InputDirs
    \* the destination: nothing there yet, or the file of an earlier run
    /\ out_dir \in BOOLEAN
    /\ out_file = IF out_dir THEN [exists |-> TRUE, text |-> OldText] ELSE NoFile
    /\ pc = "start"
    /\ status = -1
    /\ letter_files = <<>>
    /\ fi = 0
    /\ blocks = <<>>
    /\ bi = 0
    /\ entry_text = <<>>
    /\ headword = <<>>
    /\ defs = <<>>
    /\ pos = 0
    /\ idx = 0
    /\ def_content = NoDef
    /\ entries = EmptyEntries
    /\ log = <<>>
    /\ MergerIdle

(***************************************************************************)
(* gcide2tab.py: main, process_file, extract_entry.                        *)
(***************************************************************************)
RECURSIVE AscendingSeq(_)
AscendingSeq(S) ==
    IF S = {} THEN <<>>
    ELSE LET m == CHOOSE x \in S : \A y \in S : x <= y
         IN  <<m>> \o AscendingSeq(S \ {m})

\* lines 141-145 and sorted(letter_files): the letter files present, a to z
sorted_letter_files(dir) == AscendingSeq(DOMAIN dir.files)

\* lines 134-136
DirMissing ==
    /\ pc = "start"
    /\ ~xml_dir.exists
    /\ pc' = "failed"
    /\ status' = 1
    /\ UNCHANGED <<xml_dir, out_dir, out_file, letter_files, fi, blocks, bi, entry_text,
                   headword, defs, pos, idx, def_content, entries, log>>
    /\ UNCHANGED mvars

\* lines 138-151
Prepare ==
    /\ pc = "start"
    /\ xml_dir.exists
    /\ out_dir' = TRUE
    /\ letter_files' = sorted_letter_files(xml_dir)
    /\ IF letter_files' = <<>>
         THEN pc' = "failed" /\ status' = 1 /\ fi' = fi
         ELSE pc' = "files" /\ status' = status /\ fi' = 1
    /\ UNCHANGED <<xml_dir, out_file, blocks, bi, entry_text, headword, defs, pos, idx,
                   def_content, entries, log>>
    /\ UNCHANGED mvars

\* lines 152-154, 105-107
OpenFile ==
    /\ pc = "files"
    /\ fi <= Len(letter_files)
    /\ blocks' = split_blocks(xml_dir.files[letter_files[fi]])
    /\ bi' = 1
    /\ pc' = "blocks"
    /\ UNCHANGED <<xml_dir, out_dir, out_file, status, letter_files, fi, entry_text,
                   headword, defs, pos, idx, def_content, entries, log>>
    /\ UNCHANGED mvars

\* line 108: the blocks of the file are exhausted
EndFile ==
    /\ pc = "blocks"
    /\ bi > Len(blocks)
    /\ fi' = fi + 1
    /\ pc' = "files"
    /\ UNCHANGED <<xml_dir, out_dir, out_file, status, letter_files, blocks, bi, entry_text,
                   headword, defs, pos, idx, def_content, entries, log>>
    /\ UNCHANGED mvars

\* lines 109-110, and 73-75 (extract_entry returns None: no headword)
SkipBlock ==
    /\ pc = "blocks"
    /\ bi <= Len(blocks)
    /\ \/ ~Contains(blocks[bi], HwOpen)
       \/ ~Contains(blocks[bi], DefOpen)
       \/ ~hw_match(POpen \o EntOpen \o blocks[bi]).found
    /\ bi' = bi + 1
    /\ UNCHANGED <<xml_dir, out_dir, out_file, pc, status, letter_files, fi, blocks,
                   entry_text, headword, defs, pos, idx, def_content, entries, log>>
    /\ UNCHANGED mvars

\* lines 112-113, 73-79
BeginEntry ==
    /\ pc = "blocks"
    /\ bi <= Len(blocks)
    /\ Contains(blocks[bi], HwOpen)
    /\ Contains(blocks[bi], DefOpen)
    /\ hw_match(POpen \o EntOpen \o blocks[bi]).found
    /\ entry_text' = POpen \o EntOpen \o blocks[bi]
    /\ headword' = Strip(hw_match(entry_text').text)
    /\ defs' = <<>>
    /\ pos' = 1
    /\ idx' = 0
    /\ def_content' = NoDef
    /\ pc' = "find"
    /\ UNCHANGED <<xml_dir, out_dir, out_file, status, letter_files, fi, blocks, bi,
                   entries, log>>
    /\ UNCHANGED mvars

\* lines 81-83
ScanFind ==
    /\ pc = "find"
    /\ idx' = Find(entry_text, DefOpen, pos)
    /\ pc' = IF idx' = 0 THEN "finish" ELSE "extract"
    /\ UNCHANGED <<xml_dir, out_dir, out_file, status, letter_files, fi, blocks, bi,
                   entry_text, headword, defs, pos, def_content, entries, log>>
    /\ UNCHANGED mvars

\* lines 84-90
ScanExtract ==
    /\ pc = "extract"
    /\ def_content' = extract_def_content(entry_text, idx)
    /\ defs' = IF def_content'.found /\ plain_of(def_content'.text) # <<>>
                 THEN Append(defs, plain_of(def_content'.text))
                 ELSE defs
    /\ pos' = def_content'.end
    /\ pc' = "find"
    /\ UNCHANGED <<xml_dir, out_dir, out_file, status, letter_files, fi, blocks, bi,
                   entry_text, headword, idx, entries, log>>
    /\ UNCHANGED mvars

\* lines 92-100, 114-120
FinishEntry ==
    /\ pc = "finish"
    /\ IF defs = <<>>
         THEN UNCHANGED <<entries, log>>
         ELSE LET r == entry_result(headword, defs)
              IN  /\ entries' = merge_entry(entries, r.headword, r.definition)
                  /\ log' = Append(log, [file |-> letter_files[fi], block |-> bi,
                                         headword |-> r.headword,
                                         definition |-> r.definition])
    /\ bi' = bi + 1
    /\ pc' = "blocks"
    /\ UNCHANGED <<xml_dir, out_dir, out_file, status, letter_files, fi, blocks,
                   entry_text, headword, defs, pos, idx, def_content>>
    /\ UNCHANGED mvars

\* lines 156-168
WriteOutput ==
    /\ pc = "files"
    /\ fi > Len(letter_files)
    /\ out_file' = [exists |-> TRUE, text |-> serialize(entries)]
    /\ pc' = "done"
    /\ status' = 0
    /\ UNCHANGED <<xml_dir, out_dir, letter_files, fi, blocks, bi, entry_text, headword,
                   defs, pos, idx, def_content, entries, log>>
    /\ UNCHANGED mvars

Next ==
    \/ DirMissing
    \/ Prepare
    \/ OpenFile
    \/ EndFile
    \/ SkipBlock
    \/ BeginEntry
    \/ ScanFind
    \/ ScanExtract
    \/ FinishEntry
    \/ WriteOutput

Spec == Init /\ [][Next]_vars

\* the interpreter runs the next statement of the scan loop of extract_entry
FairSpec == Spec /\ WF_vars(ScanFind) /\ WF_vars(ScanExtract)

(***************************************************************************)
(* merge_gcide_with_characters.py.                                         *)
(***************************************************************************)
CHAR_TAG == <<"[", "C", "h", "a", "r", "a", "c", "t", "e", "r", "]", " ">>

\* the line boundaries of str.splitlines() among the model's characters
LineBreaks == {"\n", "\r", "\f"}

RECURSIVE SplitLinesFrom(_, _)
\* the lines of s from position i on; \r\n is one boundary
SplitLinesFrom(s, i) ==
    LET at == {k \in i..Len(s) : s[k] \in LineBreaks}
    IN  IF i > Len(s) THEN <<>>
        ELSE IF at = {} THEN <<SubSeq(s, i, Len(s))>>
        ELSE LET b == Least(at)
                 n == IF s[b] = "\r" /\ b + 1 <= Len(s) /\ s[b + 1] = "\n" THEN b + 2 ELSE b + 1
             IN  <<SubSeq(s, i, b - 1)>> \o SplitLinesFrom(s, n)

\* s.splitlines()
splitlines(s) == SplitLinesFrom(s, 1)

\* lines 80, 84: read_text().strip().splitlines()
read_lines(text) == splitlines(Strip(text))

RECURSIVE NonBlankFrom(_, _)
NonBlankFrom(lines, i) ==
    IF i > Len(lines) THEN <<>>
    ELSE (IF Strip(lines[i]) # <<>> THEN <<lines[i]>> ELSE <<>>) \o NonBlankFrom(lines, i + 1)

\* line 85: [ln for ln in char_lines if ln.strip()]
non_blank(lines) == NonBlankFrom(lines, 1)

\* lines 95-104: what is written for one supplementary line, without the newline
annotate(ln) ==
    LET t == Find(ln, <<"\t">>, 1)
    IN  IF t # 0
          THEN SubSeq(ln, 1, t - 1) \o <<"\t">> \o CHAR_TAG \o SubSeq(ln, t + 1, Len(ln))
          ELSE ln

RECURSIVE WriteBase(_, _)
WriteBase(lines, i) ==
    IF i > Len(lines) THEN <<>> ELSE lines[i] \o <<"\n">> \o WriteBase(lines, i + 1)

RECURSIVE WriteChars(_, _)
WriteChars(lines, i) ==
    IF i > Len(lines) THEN <<>> ELSE annotate(lines[i]) \o <<"\n">> \o WriteChars(lines, i + 1)

\* lines 90-104: the text written to output_path
union_text(gcide_lines, char_lines) == WriteBase(gcide_lines, 1) \o WriteChars(char_lines, 1)

LDog == <<"d", "o", "g", "\t", "a", " ", "c", "a", "n", "i", "n", "e">>
LDogChar == <<"d", "o", "g", "\t", "l", "o", "y", "a", "l">>
LDogTagged ==
    <<"d", "o", "g", "\t", "[", "C", "h", "a", "r", "a", "c", "t", "e", "r", "]", " ",
      "l", "o", "y", "a", "l">>
\* a line whose definition is empty
LCat == <<"c", "a", "t", "\t">>
LBean == <<"b", "e", "a", "n", "\t">>
\* a line without a tab separator
LEnder == <<"e", "n", "d", "e", "r">>

BaseLineCatalogue == {LDog, LCat, <<>>}
CharLineCatalogue == {LDogChar, LBean, LEnder, <<>>}

\* a file of lines, each ended by a newline
TextOf(lines) == WriteBase(lines, 1)

BaseFiles ==
    {NoFile} \cup
    {[exists |-> TRUE, text |-> TextOf(ls)] :
        ls \in UNION {[1..n -> BaseLineCatalogue] : n \in 0..MaxBaseLines}}

CharFiles ==
    {NoFile} \cup
    {[exists |-> TRUE, text |-> TextOf(ls)] :
        ls \in UNION {[1..n -> CharLineCatalogue] : n \in 0..MaxCharLines}}

ExtractorIdle ==
    /\ xml_dir = NoDir
    /\ out_dir = FALSE
    /\ out_file = NoFile
    /\ pc = "idle"
    /\ status = -1
    /\ letter_files = <<>>
    /\ fi = 0
    /\ blocks = <<>>
    /\ bi = 0
    /\ entry_text = <<>>
    /\ headword = <<>>
    /\ defs = <<>>
    /\ pos = 0
    /\ idx = 0
    /\ def_content = NoDef
    /\ entries = EmptyEntries
    /\ log = <<>>

MergeInit ==
    /\ ExtractorIdle
    /\ book_folder \in {"known", "unknown", "none"}
    /\ gcide_file \in BaseFiles
    /\ char_file \in CharFiles
    \* char_path lies in book_dir
    /\ book_dir \in {d \in BOOLEAN : char_file.exists => d}
    /\ union_file \in {NoFile} \cup {f \in {[exists |-> TRUE, text |-> OldText]} : book_dir}
    /\ mpc = "start"
    /\ mstatus = -1

\* lines 52-61
BadArgument ==
    /\ mpc = "start"
    /\ book_folder # "known"
    /\ mpc' = "failed"
    /\ mstatus' = 1
    /\ UNCHANGED <<book_folder, gcide_file, char_file, book_dir, union_file>>
    /\ UNCHANGED evars

\* lines 69-72
MissingBase ==
    /\ mpc = "start"
    /\ book_folder = "known"
    /\ ~gcide_file.exists
    /\ mpc' = "failed"
    /\ mstatus' = 1
    /\ UNCHANGED <<book_folder, gcide_file, char_file, book_dir, union_file>>
    /\ UNCHANGED evars

\* lines 73-75
MissingCharacters ==
    /\ mpc = "start"
    /\ book_folder = "known"
    /\ gcide_file.exists
    /\ ~char_file.exists
    /\ mpc' = "failed"
    /\ mstatus' = 1
    /\ UNCHANGED <<book_folder, gcide_file, char_file, book_dir, union_file>>
    /\ UNCHANGED evars

\* lines 77-104
WriteUnion ==
    /\ mpc = "start"
    /\ book_folder = "known"
    /\ gcide_file.exists
    /\ char_file.exists
    /\ book_dir' = TRUE
    /\ union_file' = [exists |-> TRUE,
                      text |-> union_text(read_lines(gcide_file.text),
                                          non_blank(read_lines(char_file.text)))]
    /\ mpc' = "written"
    /\ UNCHANGED <<book_folder, gcide_file, char_file, mstatus>>
    /\ UNCHANGED evars

MergeNext ==
    \/ BadArgument
    \/ MissingBase
    \/ MissingCharacters
    \/ WriteUnion

MergeSpec == MergeInit /\ [][MergeNext]_vars

(***************************************************************************)
(* Properties.                                                             *)
(***************************************************************************)
\* the lines of a written file, and the headword / definition of a line
FileLines(text) == splitlines(text)

LineHeadword(ln) ==
    LET t == Find(ln, <<"\t">>, 1) IN IF t = 0 THEN ln ELSE SubSeq(ln, 1, t - 1)

LineDefinition(ln) ==
    LET t == Find(ln, <<"\t">>, 1) IN IF t = 0 THEN <<>> ELSE SubSeq(ln, t + 1, Len(ln))

\* C1: in the file the extractor writes, no headword (the text of a line before
\* its first tab) appears on more than one line.
HeadwordsUnique ==
    pc = "done" =>
        LET ls == FileLines(out_file.text)
        IN  \A i \in 1..Len(ls), j \in 1..Len(ls) :
                i # j => LineHeadword(ls[i]) # LineHeadword(ls[j])

\* C2: the lines of the file the extractor writes are in lexicographic order of
\* the headword as written on each line.
OutputSorted ==
    pc = "done" =>
        LET ls == FileLines(out_file.text)
        IN  \A i \in 1..Len(ls), j \in 1..Len(ls) :
                i < j => LexLeq(LineHeadword(ls[i]), LineHeadword(ls[j]))

RECURSIVE DefsOf(_, _, _)
\* the definitions of the results with headword k, in the order of the sequence
DefsOf(results, k, i) ==
    IF i > Len(results) THEN <<>>
    ELSE (IF results[i].headword = k THEN <<results[i].definition>> ELSE <<>>)
         \o DefsOf(results, k, i + 1)

\* the spec's end-to-end example: apple / a fruit in file a, apple / to polish in file b
ExampleDir ==
    [exists |-> TRUE,
     files |-> [l \in {1, 2} |-> FileText(<<BFruit, BPolish>>, <<1, 2>>, l)]]

ExampleLine == HwApple \o <<"\t">> \o DFruit \o Sep \o DPolish \o <<"\n">>

\* C3: the entries are found letter file by letter file in alphabetical order and
\* block by block; the definition stored for a headword is the definitions of all
\* blocks that yield it, in that order, joined with "; "; and the example directory
\* produces exactly the line apple<TAB>a fruit; to polish.
ConsolidationInEncounterOrder ==
    /\ \A i \in 1..Len(log), j \in 1..Len(log) :
          i < j => \/ log[i].file < log[j].file
                   \/ log[i].file = log[j].file /\ log[i].block < log[j].block
    /\ DOMAIN entries = {log[i].headword : i \in 1..Len(log)}
    /\ \A k \in DOMAIN entries : entries[k] = Join(Sep, DefsOf(log, k, 1))
    /\ (pc = "done" /\ xml_dir = ExampleDir) => out_file.text = ExampleLine

ConsolidationWitness ==
    /\ pc = "done"
    /\ xml_dir = ExampleDir
    /\ Len(log) = 2
    /\ out_file.text = ExampleLine

\* definition-open / definition-close markers at positions a..b
Opens(s, a, b) == Cardinality({i \in a..b : Slice(s, i, 5) = DefOpen})
Closes(s, a, b) == Cardinality({i \in a..b : Slice(s, i, 6) = DefClose})

\* the close markers after the open marker at i that are at its nesting depth
ClosesAtDepth(s, i) ==
    {j \in (i + 5)..Len(s) : Slice(s, j, 6) = DefClose /\ Opens(s, i, j) = Closes(s, i, j)}

MatchingClose(s, i) == CHOOSE j \in ClosesAtDepth(s, i) : \A k \in ClosesAtDepth(s, i) : j <= k

\* C4: when the open marker the scan stopped at has a close marker at its nesting
\* depth, the span extracted is the text between the open marker and that
\* matching close marker and the scan resumes right after it; the block
\* <def>outer <def>inner</def> text</def> yields the one span "outer inner text".
NestingCorrect ==
    /\ (pc = "find" /\ idx > 0 /\ ClosesAtDepth(entry_text, idx) # {}) =>
          LET m == MatchingClose(entry_text, idx)
          IN  /\ def_content.found
              /\ def_content.text = SubSeq(entry_text, idx + 5, m - 1)
              /\ pos = m + 6
    /\ (pc = "finish" /\ Contains(entry_text, NestedDef)) => defs = <<NestedPlain>>

NestingWitness ==
    /\ pc = "finish"
    /\ Contains(entry_text, NestedDef)
    /\ def_content.found
    /\ Contains(def_content.text, DefClose)
    /\ defs = <<NestedPlain>>

\* C5: no definition of the lexicon contains a tab, newline or carriage return.
SingleLineDefinitions ==
    \A k \in DOMAIN entries :
        \A i \in 1..Len(entries[k]) : entries[k][i] \notin {"\t", "\n", "\r"}

\* a block with a raw tab and a tab reference in its definition, found twice
SingleLineWitness ==
    \E k \in DOMAIN entries :
        /\ Len(log) = 2
        /\ Contains(xml_dir.files[log[1].file], MultiDef)
        /\ entries[k] = MultiPlain \o Sep \o MultiPlain

\* C6: the combined file starts with every line of the base lexicon, unchanged and
\* in order, blank lines and the whitespace of the first and last line included;
\* after them come only the supplementary lines.
BasePassThrough ==
    mpc = "written" =>
        LET base == FileLines(gcide_file.text)
            out == FileLines(union_file.text)
        IN  /\ Len(out) = Len(base) + Len(non_blank(FileLines(char_file.text)))
            /\ SubSeq(out, 1, Len(base)) = base

RECURSIVE ExpectedCharLines(_, _)
\* what the supplementary lines are to be written as: blank lines dropped, a line
\* with a tab tagged after its first tab, any other line as it is
ExpectedCharLines(lines, i) ==
    IF i > Len(lines) THEN <<>>
    ELSE LET ln == lines[i]
             t == Find(ln, <<"\t">>, 1)
         IN  (IF Strip(ln) = <<>> THEN <<>>
              ELSE IF t # 0
                THEN <<SubSeq(ln, 1, t - 1) \o <<"\t">> \o CHAR_TAG \o SubSeq(ln, t + 1, Len(ln))>>
              ELSE <<ln>>)
             \o ExpectedCharLines(lines, i + 1)

\* C7: the combined file ends with the supplementary lines in order: a line with a
\* tab as headword, tab, "[Character] ", rest; a line without a tab unmodified; a
\* blank line not at all; each on a line of its own, whatever the base holds.
SupplementaryAnnotated ==
    mpc = "written" =>
        LET want == ExpectedCharLines(FileLines(char_file.text), 1)
            out == FileLines(union_file.text)
        IN  /\ Len(out) >= Len(want)
            /\ SubSeq(out, Len(out) - Len(want) + 1, Len(out)) = want

\* C8: a fatal error of the extractor (input directory absent, or no letter file
\* in it) ends with a non-zero status and leaves the destination as it was: no
\* output file written or truncated, no output directory created.
FatalLeavesDestinationUntouched ==
    [][pc' = "failed" => (status' # 0 /\ out_dir' = out_dir /\ out_file' = out_file)]_vars

\* C9: the scan loop of extract_entry eventually finishes for every block.
ScanLoopTerminates == (pc \in {"find", "extract"}) ~> (pc \notin {"find", "extract"})

\* C10: every entry of the lexicon, and every line written, has a non-empty
\* definition.
NoEmptyDefinitions ==
    /\ \A k \in DOMAIN entries : entries[k] # <<>>
    /\ pc = "done" =>
          \A i \in 1..Len(FileLines(out_file.text)) :
              LineDefinition(FileLines(out_file.text)[i]) # <<>>

=============================================================================
